---------------------------- MODULE Spec2Model ----------------------------
(***************************************************************************)
(* A model of the two negotiation agents of the repository:                *)
(*   BoboAgent         (src/agents/bobo_agent/bobo_agent.py)               *)
(*   BoboAgentDynamic  (src/agents/bobo_agent_dynamic_flags/bobo_agent.py) *)
(*                                                                         *)
(* Numbers.  Utilities and progress are floats in [0,1] in the source; the *)
(* model keeps them in thousandths (0.87 is 870).  Comparisons against     *)
(* the thresholds of the code are exact in that unit.  Products keep the   *)
(* product of the units (a product of two utilities is in millionths).     *)
(* progress ** 10 and the alpha of the scoring functions are truncated to  *)
(* thousandths (fixed point in place of floating point).                   *)
(* The continuous weights are kept exactly, in units of 1/60000.           *)
(*                                                                         *)
(* Strings that the code formats, splits or compares (party ids, the lines *)
(* of data.md) are sequences of one-character strings.                     *)
(***************************************************************************)
EXTENDS Integers, Sequences, FiniteSets, TLC

\* None, for the fields that hold a bid, a model object or a directory name.
None == "None"
\* None, for the fields that hold a string or a party id (a sequence here).
NoneStr == <<"None">>

(***************************************************************************)
(* Bounds of the model.                                                    *)
(***************************************************************************)
\* Opponent offers delivered to one agent instance.
MaxOffers == 5
\* Agent instances (sessions) run one after the other on the same storage.
MaxSessions == 2

(***************************************************************************)
(* The environment of a session: bid space, own utility, clock, oracle.    *)
(***************************************************************************)
\* AllBidsList(domain): the bids of the domain, by index.
Bids == {"b600", "b680", "b860", "b900"}

\* profile.getUtility(bid), in thousandths.
Utility(bid) ==
    CASE bid = "b600" -> 600
      [] bid = "b680" -> 680
      [] bid = "b860" -> 860
      [] bid = "b900" -> 900

\* The values progress.get(time() * 1000) takes in the model, in thousandths.
ProgressGrid == {0, 300, 960, 995}

\* Progress values around every threshold of the two acceptance policies.
ProgressPoints ==
    {0, 300, 600, 601, 900, 901, 930, 931, 950, 951, 960, 961, 970, 971,
     980, 981, 990, 991, 995, 1000}

\* What OpponentModel.get_predicted_utility returns, in thousandths: a value
\* in [0,1] that depends on the model and the bid only.  PredGrid are the
\* values it takes for the bid the opponent just offered, CandidateGrid the
\* values it takes for the candidates of find_bid.
PredGrid == {500, 950}
CandidateGrid == {50, 950}

\* geniusweb party ids: str(PartyId) is the name of the party.
MyId == <<"m", "e", "_", "1">>
OpponentId == <<"X", "_", "2">>

(***************************************************************************)
(* String helpers: what str.rsplit, str.strip and str.split do.            *)
(***************************************************************************)
Max(a, b) == IF a >= b THEN a ELSE b
Min(a, b) == IF a <= b THEN a ELSE b
Abs(a) == IF a >= 0 THEN a ELSE -a

\* Index of the last occurrence of character c in s, 0 when there is none.
LastIndexOf(s, c) ==
    LET hits == {i \in 1 .. Len(s) : s[i] = c}
    IN  IF hits = {} THEN 0 ELSE CHOOSE i \in hits : \A j \in hits : j <= i

\* str(actor).rsplit("_", 1)[0]
RSplitHead(s) ==
    LET k == LastIndexOf(s, "_")
    IN  IF k = 0 THEN s ELSE SubSeq(s, 1, k - 1)

\* line.strip(): leading and trailing whitespace removed.
IsSpace(c) == c \in {" ", "\n", "\t"}

RECURSIVE LStrip(_)
LStrip(s) ==
    IF s # <<>> /\ IsSpace(Head(s)) THEN LStrip(Tail(s)) ELSE s

RECURSIVE RStrip(_)
RStrip(s) ==
    IF s # <<>> /\ IsSpace(s[Len(s)]) THEN RStrip(SubSeq(s, 1, Len(s) - 1)) ELSE s

Strip(s) == LStrip(RStrip(s))

\* s.split(","): the fields between the commas of s.
RECURSIVE SplitComma(_, _, _)
SplitComma(s, field, done) ==
    IF s = <<>> THEN Append(done, field)
    ELSE IF Head(s) = "," THEN SplitComma(Tail(s), <<>>, Append(done, field))
    ELSE SplitComma(Tail(s), Append(field, Head(s)), done)

Split(s) == SplitComma(s, <<>>, <<>>)

\* str(True), str(False) as the f-string of save_data prints them.
TrueStr == <<"T", "r", "u", "e">>
FalseStr == <<"F", "a", "l", "s", "e">>
BoolStr(b) == IF b THEN TrueStr ELSE FalseStr

(***************************************************************************)
(* BoboAgent: acceptance policy, scoring, bid search.                      *)
(***************************************************************************)
\* BoboAgent.accept_condition with "offered_util > 0.9" in place of ">= 0.9".
BoboAgent_accept_condition_StrictHigh(bid, offered_util, progress, opponent_util, greedy, nice, model) ==
    IF bid = None THEN FALSE
    ELSE IF offered_util > 900 THEN TRUE
    ELSE IF greedy /\ offered_util > 650 THEN TRUE
    ELSE IF model # None /\ greedy THEN
        IF progress > 990 /\ offered_util > 600 THEN TRUE
        ELSE IF progress > 970 /\ offered_util > 700 THEN TRUE
        ELSE FALSE
    ELSE IF model # None /\ nice /\ progress > 950
            /\ offered_util > 750 /\ opponent_util > 700 THEN TRUE
    ELSE IF model # None /\ progress > 600 /\ offered_util > 600
            /\ opponent_util < 500 THEN TRUE
    ELSE IF model # None /\ progress > 970 /\ offered_util > 850
            /\ opponent_util < 600 THEN TRUE
    ELSE IF model # None /\ ~greedy
            /\ offered_util * opponent_util > 750000 THEN TRUE
    ELSE IF model # None /\ progress > 950 /\ opponent_util > 900
            /\ offered_util < 700 THEN FALSE
    ELSE IF model # None /\ progress > 930 /\ offered_util > 650
            /\ opponent_util < 500 THEN TRUE
    ELSE IF progress > 980 THEN offered_util > 700
    ELSE IF progress > 970 THEN offered_util > 750
    ELSE IF progress > 960 THEN offered_util > 800
    ELSE IF progress > 950 THEN offered_util > 850
    ELSE FALSE

\* BoboAgent.accept_condition without the last rung, "elif progress > 0.95".
BoboAgent_accept_condition_NoLastRung(bid, offered_util, progress, opponent_util, greedy, nice, model) ==
    IF bid = None THEN FALSE
    ELSE IF offered_util >= 900 THEN TRUE
    ELSE IF greedy /\ offered_util > 650 THEN TRUE
    ELSE IF model # None /\ greedy THEN
        IF progress > 990 /\ offered_util > 600 THEN TRUE
        ELSE IF progress > 970 /\ offered_util > 700 THEN TRUE
        ELSE FALSE
    ELSE IF model # None /\ nice /\ progress > 950
            /\ offered_util > 750 /\ opponent_util > 700 THEN TRUE
    ELSE IF model # None /\ progress > 600 /\ offered_util > 600
            /\ opponent_util < 500 THEN TRUE
    ELSE IF model # None /\ progress > 970 /\ offered_util > 850
            /\ opponent_util < 600 THEN TRUE
    ELSE IF model # None /\ ~greedy
            /\ offered_util * opponent_util > 750000 THEN TRUE
    ELSE IF model # None /\ progress > 950 /\ opponent_util > 900
            /\ offered_util < 700 THEN FALSE
    ELSE IF model # None /\ progress > 930 /\ offered_util > 650
            /\ opponent_util < 500 THEN TRUE
    ELSE IF progress > 980 THEN offered_util > 700
    ELSE IF progress > 970 THEN offered_util > 750
    ELSE IF progress > 960 THEN offered_util > 800
    ELSE FALSE

\* BoboAgent.accept_condition with the last resort of the greedy branch at
\* "offered_util >= 0.6" in place of "> 0.6".
BoboAgent_accept_condition_LastResortAt06(bid, offered_util, progress, opponent_util, greedy, nice, model) ==
    IF bid = None THEN FALSE
    ELSE IF offered_util >= 900 THEN TRUE
    ELSE IF greedy /\ offered_util > 650 THEN TRUE
    ELSE IF model # None /\ greedy THEN
        IF progress > 990 /\ offered_util >= 600 THEN TRUE
        ELSE IF progress > 970 /\ offered_util > 700 THEN TRUE
        ELSE FALSE
    ELSE IF model # None /\ nice /\ progress > 950
            /\ offered_util > 750 /\ opponent_util > 700 THEN TRUE
    ELSE IF model # None /\ progress > 600 /\ offered_util > 600
            /\ opponent_util < 500 THEN TRUE
    ELSE IF model # None /\ progress > 970 /\ offered_util > 850
            /\ opponent_util < 600 THEN TRUE
    ELSE IF model # None /\ ~greedy
            /\ offered_util * opponent_util > 750000 THEN TRUE
    ELSE IF model # None /\ progress > 950 /\ opponent_util > 900
            /\ offered_util < 700 THEN FALSE
    ELSE IF model # None /\ progress > 930 /\ offered_util > 650
            /\ opponent_util < 500 THEN TRUE
    ELSE IF progress > 980 THEN offered_util > 700
    ELSE IF progress > 970 THEN offered_util > 750
    ELSE IF progress > 960 THEN offered_util > 800
    ELSE IF progress > 950 THEN offered_util > 850
    ELSE FALSE

\* BoboAgent.accept_condition taking the decent deal of a greedy opponent
\* only when the opponent is not nice as well.
BoboAgent_accept_condition_GreedyUnlessNice(bid, offered_util, progress, opponent_util, greedy, nice, model) ==
    IF bid = None THEN FALSE
    ELSE IF offered_util >= 900 THEN TRUE
    ELSE IF greedy /\ ~nice /\ offered_util > 650 THEN TRUE
    ELSE IF model # None /\ greedy THEN
        IF progress > 990 /\ offered_util > 600 THEN TRUE
        ELSE IF progress > 970 /\ offered_util > 700 THEN TRUE
        ELSE FALSE
    ELSE IF model # None /\ nice /\ progress > 950
            /\ offered_util > 750 /\ opponent_util > 700 THEN TRUE
    ELSE IF model # None /\ progress > 600 /\ offered_util > 600
            /\ opponent_util < 500 THEN TRUE
    ELSE IF model # None /\ progress > 970 /\ offered_util > 850
            /\ opponent_util < 600 THEN TRUE
    ELSE IF model # None /\ ~greedy
            /\ offered_util * opponent_util > 750000 THEN TRUE
    ELSE IF model # None /\ progress > 950 /\ opponent_util > 900
            /\ offered_util < 700 THEN FALSE
    ELSE IF model # None /\ progress > 930 /\ offered_util > 650
            /\ opponent_util < 500 THEN TRUE
    ELSE IF progress > 980 THEN offered_util > 700
    ELSE IF progress > 970 THEN offered_util > 750
    ELSE IF progress > 960 THEN offered_util > 800
    ELSE IF progress > 950 THEN offered_util > 850
    ELSE FALSE

\* BoboAgent.accept_condition.  bid is the bid (or None), offered_util what
\* profile.getUtility(bid) returns, progress the clock read, opponent_util
\* what opponent_model.get_predicted_utility(bid) returns (read only when
\* there is a model), greedy and nice the two flags, model the
\* opponent_model field.
BoboAgent_accept_condition(bid, offered_util, progress, opponent_util, greedy, nice, model) ==
    IF bid = None THEN FALSE
    ELSE IF offered_util >= 900 THEN TRUE
    ELSE IF greedy /\ offered_util > 650 THEN TRUE
    ELSE IF model # None /\ greedy THEN
        IF progress > 990 /\ offered_util > 600 THEN TRUE
        ELSE IF progress > 970 /\ offered_util > 700 THEN TRUE
        ELSE FALSE
    ELSE IF model # None /\ nice /\ progress > 950
            /\ offered_util > 750 /\ opponent_util > 700 THEN TRUE
    ELSE IF model # None /\ progress > 600 /\ offered_util > 600
            /\ opponent_util < 500 THEN TRUE
    ELSE IF model # None /\ progress > 970 /\ offered_util > 850
            /\ opponent_util < 600 THEN TRUE
    ELSE IF model # None /\ ~greedy
            /\ offered_util * opponent_util > 750000 THEN TRUE
    ELSE IF model # None /\ progress > 950 /\ opponent_util > 900
            /\ offered_util < 700 THEN FALSE
    ELSE IF model # None /\ progress > 930 /\ offered_util > 650
            /\ opponent_util < 500 THEN TRUE
    ELSE IF progress > 980 THEN offered_util > 700
    ELSE IF progress > 970 THEN offered_util > 750
    ELSE IF progress > 960 THEN offered_util > 800
    ELSE IF progress > 950 THEN offered_util > 850
    ELSE FALSE

\* progress ** (1 / eps) with eps = 0.1, in thousandths, truncated after
\* every multiplication.  It is 1000 exactly when progress is 1000.
PowTen(progress) ==
    LET p2 == (progress * progress) \div 1000
        p4 == (p2 * p2) \div 1000
        p8 == (p4 * p4) \div 1000
    IN  (p8 * p2) \div 1000

\* BoboAgent.score_bid without the early return for a greedy opponent: the
\* fallback 0.5 stands for the opponent's utility in the weighted sum.
BoboAgent_score_bid_GreedyNotShortcut(bid, progress, opponent_utility, greedy, nice, model) ==
    LET our_utility == Utility(bid)
        time_pressure == 1000 - PowTen(progress)
    IN
    IF model = None THEN 950 * time_pressure * our_utility
    ELSE IF ~greedy /\ opponent_utility * 100 < 10000 - 8 * progress THEN 0
    ELSE LET alpha == IF nice THEN 700
                      ELSE IF greedy THEN 950
                      ELSE 950 - (45 * progress) \div 100
    IN
    LET opponent_fallback == IF greedy THEN 500 ELSE opponent_utility IN
    alpha * time_pressure * our_utility
         + (1000000 - alpha * time_pressure) * opponent_fallback

\* BoboAgent.score_bid pruning the bids of low predicted utility whether or
\* not the opponent is greedy.
BoboAgent_score_bid_PruneAlways(bid, progress, opponent_utility, greedy, nice, model) ==
    LET our_utility == Utility(bid)
        time_pressure == 1000 - PowTen(progress)
    IN
    IF model = None THEN 950 * time_pressure * our_utility
    ELSE IF opponent_utility * 100 < 10000 - 8 * progress THEN 0
    ELSE LET alpha == IF nice THEN 700
                      ELSE IF greedy THEN 950
                      ELSE 950 - (45 * progress) \div 100
    IN
    IF greedy THEN our_utility * 1000000
    ELSE alpha * time_pressure * our_utility
         + (1000000 - alpha * time_pressure) * opponent_utility

\* BoboAgent.score_bid, in units of 10^-9.  opponent_utility is what
\* opponent_model.get_predicted_utility(bid) returns.
BoboAgent_score_bid(bid, progress, opponent_utility, greedy, nice, model) ==
    LET our_utility == Utility(bid)
        time_pressure == 1000 - PowTen(progress)
    IN
    IF model = None THEN 950 * time_pressure * our_utility
    ELSE IF ~greedy /\ opponent_utility * 100 < 10000 - 8 * progress THEN 0
    ELSE LET alpha == IF nice THEN 700
                      ELSE IF greedy THEN 950
                      ELSE 950 - (45 * progress) \div 100
    IN
    IF greedy THEN our_utility * 1000000
    ELSE alpha * time_pressure * our_utility
         + (1000000 - alpha * time_pressure) * opponent_utility

\* min_util of BoboAgent.find_bid is 0.85 * (1 - 0.25 * progress);
\* the test "getUtility(bid) < min_util", both sides in units of 10^-7.
BoboAgent_below_min_util(bid, progress) ==
    Utility(bid) * 10000 < 8500000 - 2125 * progress

\* The sampling loop of BoboAgent.find_bid over the candidates drawn, in
\* the order they are drawn.  pred[b] is the predicted utility of bid b.
RECURSIVE BoboAgent_find_bid_loop(_, _, _, _, _, _, _, _)
BoboAgent_find_bid_loop(samples, progress, pred, greedy, nice, model, best_bid_score, best_bid) ==
    IF samples = <<>> THEN best_bid
    ELSE LET bid == Head(samples)
             bid_score == BoboAgent_score_bid(bid, progress, pred[bid],
                                              greedy, nice, model)
         IN
         IF BoboAgent_below_min_util(bid, progress)
         THEN BoboAgent_find_bid_loop(Tail(samples), progress, pred, greedy,
                                      nice, model, best_bid_score, best_bid)
         ELSE IF bid_score > best_bid_score
         THEN BoboAgent_find_bid_loop(Tail(samples), progress, pred, greedy,
                                      nice, model, bid_score, bid)
         ELSE BoboAgent_find_bid_loop(Tail(samples), progress, pred, greedy,
                                      nice, model, best_bid_score, best_bid)

\* BoboAgent.find_bid without the fallback draw.
BoboAgent_find_bid_NoFallback(best_bid, fallback) == best_bid

\* The end of BoboAgent.find_bid.  best_bid is what the loop leaves, started
\* with best_bid_score = 0.0 and best_bid = None; fallback is the bid the
\* last randint picks.
BoboAgent_find_bid(best_bid, fallback) ==
    IF best_bid = None THEN fallback ELSE best_bid

(***************************************************************************)
(* BoboAgentDynamic: acceptance policy, scoring, bid search.               *)
(* The two weights are in units of 1/60000.                                *)
(***************************************************************************)
\* BoboAgentDynamic.accept_condition returning True when there is no bid.
BoboAgentDynamic_accept_condition_NoneAccepted(bid, offered_util, progress, opponent_util, gw, model) ==
    IF bid = None THEN TRUE
    ELSE IF offered_util >= 850 THEN TRUE
    ELSE IF gw < 30000 /\ progress > 900 /\ offered_util > 700 THEN TRUE
    ELSE IF model # None /\ progress > 950 /\ offered_util > 750
            /\ opponent_util > 600 THEN TRUE
    ELSE IF model # None /\ progress > 990 /\ offered_util > 700
            /\ opponent_util < 500 THEN TRUE
    ELSE offered_util > (IF progress > 980 THEN 750
                         ELSE IF progress > 950 THEN 800 ELSE 850)

\* BoboAgentDynamic.accept_condition with the base threshold 0.6 in place
\* of 0.85.
BoboAgentDynamic_accept_condition_LowBase(bid, offered_util, progress, opponent_util, gw, model) ==
    IF bid = None THEN FALSE
    ELSE IF offered_util >= 850 THEN TRUE
    ELSE IF gw < 30000 /\ progress > 900 /\ offered_util > 700 THEN TRUE
    ELSE IF model # None /\ progress > 950 /\ offered_util > 750
            /\ opponent_util > 600 THEN TRUE
    ELSE IF model # None /\ progress > 990 /\ offered_util > 700
            /\ opponent_util < 500 THEN TRUE
    ELSE offered_util > (IF progress > 980 THEN 750
                         ELSE IF progress > 950 THEN 800 ELSE 600)

\* BoboAgentDynamic.accept_condition with the stepped thresholds in the
\* reverse order: 0.75 early, 0.85 in the last moments.
BoboAgentDynamic_accept_condition_RisingThreshold(bid, offered_util, progress, opponent_util, gw, model) ==
    IF bid = None THEN FALSE
    ELSE IF offered_util >= 850 THEN TRUE
    ELSE IF gw < 30000 /\ progress > 900 /\ offered_util > 700 THEN TRUE
    ELSE IF model # None /\ progress > 950 /\ offered_util > 750
            /\ opponent_util > 600 THEN TRUE
    ELSE IF model # None /\ progress > 990 /\ offered_util > 700
            /\ opponent_util < 500 THEN TRUE
    ELSE offered_util > (IF progress > 980 THEN 850
                         ELSE IF progress > 950 THEN 800 ELSE 750)

\* BoboAgentDynamic.accept_condition.
BoboAgentDynamic_accept_condition(bid, offered_util, progress, opponent_util, gw, model) ==
    IF bid = None THEN FALSE
    ELSE IF offered_util >= 850 THEN TRUE
    ELSE IF gw < 30000 /\ progress > 900 /\ offered_util > 700 THEN TRUE
    ELSE IF model # None /\ progress > 950 /\ offered_util > 750
            /\ opponent_util > 600 THEN TRUE
    ELSE IF model # None /\ progress > 990 /\ offered_util > 700
            /\ opponent_util < 500 THEN TRUE
    ELSE offered_util > (IF progress > 980 THEN 750
                         ELSE IF progress > 950 THEN 800 ELSE 850)

\* BoboAgentDynamic.score_bid, in units of 10^-6; alpha and the damped
\* opponent utility are truncated to thousandths.
BoboAgentDynamic_score_bid(bid, progress, predicted, gw, nw, model) ==
    LET our_utility == Utility(bid)
        opponent_utility == IF model # None THEN predicted ELSE 0
        alpha == Max(600, 950 - (3 * progress * (60000 - nw)) \div 600000)
    IN  alpha * our_utility
        + (1000 - alpha) * ((opponent_utility * (60000 - gw)) \div 60000)

\* min_util of BoboAgentDynamic.find_bid is 0.85 * (1 - 0.15 * progress).
BoboAgentDynamic_below_min_util(bid, progress) ==
    Utility(bid) * 10000 < 8500000 - 1275 * progress

RECURSIVE BoboAgentDynamic_find_bid_loop(_, _, _, _, _, _, _, _)
BoboAgentDynamic_find_bid_loop(samples, progress, pred, gw, nw, model, best_bid_score, best_bid) ==
    IF samples = <<>> THEN best_bid
    ELSE LET bid == Head(samples)
             bid_score == BoboAgentDynamic_score_bid(bid, progress, pred[bid],
                                                     gw, nw, model)
         IN
         IF BoboAgentDynamic_below_min_util(bid, progress)
         THEN BoboAgentDynamic_find_bid_loop(Tail(samples), progress, pred, gw,
                                             nw, model, best_bid_score, best_bid)
         ELSE IF bid_score > best_bid_score
         THEN BoboAgentDynamic_find_bid_loop(Tail(samples), progress, pred, gw,
                                             nw, model, bid_score, bid)
         ELSE BoboAgentDynamic_find_bid_loop(Tail(samples), progress, pred, gw,
                                             nw, model, best_bid_score, best_bid)

\* BoboAgentDynamic.find_bid without the fallback draw.
BoboAgentDynamic_find_bid_NoFallback(best_bid, fallback) == best_bid

\* The end of BoboAgentDynamic.find_bid:
\* "best_bid or all_bids.get(randint(...))".
BoboAgentDynamic_find_bid(best_bid, fallback) ==
    IF best_bid = None THEN fallback ELSE best_bid

(***************************************************************************)
(* Behaviour classifier.                                                   *)
(***************************************************************************)
RECURSIVE SumSeq(_)
SumSeq(q) == IF q = <<>> THEN 0 ELSE Head(q) + SumSeq(Tail(q))

\* self.opponent_utils[-5:]
Recent(utils) == SubSeq(utils, Max(1, Len(utils) - 4), Len(utils))

\* The greedy test with the threshold 0.97 in place of 0.87.
BoboAgent_greedy_flag_Threshold097(utils, greedy) ==
    IF Len(utils) >= 3 /\ SumSeq(Recent(utils)) > 970 * Len(Recent(utils))
    THEN TRUE ELSE greedy

\* The greedy test active from two observations on.
BoboAgent_greedy_flag_FromTwo(utils, greedy) ==
    IF Len(utils) >= 2 /\ SumSeq(Recent(utils)) > 870 * Len(Recent(utils))
    THEN TRUE ELSE greedy

\* The greedy flag recomputed from the window on every offer.
BoboAgent_greedy_flag_Recomputed(utils, greedy) ==
    IF Len(utils) >= 3
    THEN SumSeq(Recent(utils)) > 870 * Len(Recent(utils))
    ELSE greedy

\* opponent_is_greedy after BoboAgent.opponent_action appended to utils:
\* "avg_util > 0.87" is sum(recent) > 0.87 * len(recent).
BoboAgent_greedy_flag(utils, greedy) ==
    IF Len(utils) >= 3 /\ SumSeq(Recent(utils)) > 870 * Len(Recent(utils))
    THEN TRUE ELSE greedy

\* opponent_is_nice after BoboAgent.opponent_action appended to utils.
BoboAgent_nice_flag(utils, nice) ==
    IF Len(utils) >= 3
       /\ 600 * Len(Recent(utils)) < SumSeq(Recent(utils))
       /\ SumSeq(Recent(utils)) < 900 * Len(Recent(utils))
    THEN TRUE ELSE nice

\* avg_util in units of 1/60000 (len(recent) is 3, 4 or 5 when it is read).
Avg60000(utils) == SumSeq(Recent(utils)) * (60 \div Len(Recent(utils)))

\* greedy_weight after BoboAgentDynamic.opponent_action appended to utils:
\* min(1.0, max(0.0, abs(avg_util - 0.5) * 2 - 0.15 * progress)).
BoboAgentDynamic_greedy_weight(utils, progress, gw) ==
    IF Len(utils) >= 3
    THEN Min(60000, Max(0, Abs(Avg60000(utils) - 30000) * 2 - 9 * progress))
    ELSE gw

\* nice_weight: min(1.0, max(0.0, 1.3 - avg_util - 0.15 * progress)).
BoboAgentDynamic_nice_weight(utils, progress, nw) ==
    IF Len(utils) >= 3
    THEN Min(60000, Max(0, 78000 - Avg60000(utils) - 9 * progress))
    ELSE nw

(***************************************************************************)
(* The opponent model object.                                              *)
(***************************************************************************)
\* OpponentModel(self.domain): a new model object.  Two objects are told
\* apart by the opponent offer (first, second, ...) they were constructed on.
OpponentModel(n) == "OpponentModel#" \o ToString(n)

\* opponent_action constructing a new model on every offer.
BoboAgent_opponent_model_Always(model, n) == OpponentModel(n)

\* self.opponent_model after the first lines of BoboAgent.opponent_action
\* on the n-th opponent offer: constructed only "if self.opponent_model is
\* None".
BoboAgent_opponent_model(model, n) ==
    IF model = None THEN OpponentModel(n) ELSE model

\* The same lines of BoboAgentDynamic.opponent_action.
BoboAgentDynamic_opponent_model(model, n) ==
    IF model = None THEN OpponentModel(n) ELSE model

(***************************************************************************)
(* Persistence: data.md in storage_dir.                                    *)
(***************************************************************************)
\* The line BoboAgent.save_data appends: f"{other},{greedy},{nice}\n".
BoboAgent_opponent_data(other_, greedy, nice) ==
    other_ \o <<",">> \o BoolStr(greedy) \o <<",">> \o BoolStr(nice) \o <<"\n">>

\* load_opponent_data taking the first well-formed record, whoever it is
\* about.
RECURSIVE BoboAgent_load_lines_AnyOpponent(_, _, _, _)
BoboAgent_load_lines_AnyOpponent(lines, other_, greedy, nice) ==
    IF lines = <<>> THEN <<greedy, nice>>
    ELSE LET parts == Split(Strip(Head(lines))) IN
         IF Len(parts) = 3
         THEN <<parts[2] = TrueStr, parts[3] = TrueStr>>
         ELSE BoboAgent_load_lines_AnyOpponent(Tail(lines), other_, greedy, nice)

\* The loop of BoboAgent.load_opponent_data over the lines of data.md:
\* the flags <<greedy, nice>> it leaves.
RECURSIVE BoboAgent_load_lines(_, _, _, _)
BoboAgent_load_lines(lines, other_, greedy, nice) ==
    IF lines = <<>> THEN <<greedy, nice>>
    ELSE LET parts == Split(Strip(Head(lines))) IN
         IF Len(parts) = 3 /\ parts[1] = other_
         THEN <<parts[2] = TrueStr, parts[3] = TrueStr>>
         ELSE BoboAgent_load_lines(Tail(lines), other_, greedy, nice)

\* What BoboAgentDynamic.save_data writes: "Learning data (see README.md)".
BoboAgentDynamic_data ==
    <<"L", "e", "a", "r", "n", "i", "n", "g", " ", "d", "a", "t", "a", " ",
      "(", "s", "e", "e", " ", "R", "E", "A", "D", "M", "E", ".", "m", "d", ")">>

(***************************************************************************)
(* State.                                                                  *)
(***************************************************************************)
VARIABLES
    cls,                \* the class of the agent instance
    session,            \* how many agent instances have been constructed
    phase,              \* "constructed", "running", "terminated", "crashed"
    clock,              \* what progress.get(time() * 1000) returns now
    data_md_exists,     \* whether storage holds a file data.md
    data_md,            \* the lines of data.md
    storage_dir,        \* self.storage_dir
    me,                 \* self.me
    other,              \* self.other
    opponent_utils,     \* self.opponent_utils
    opponent_is_greedy, \* self.opponent_is_greedy  (BoboAgent)
    opponent_is_nice,   \* self.opponent_is_nice    (BoboAgent)
    greedy_weight,      \* self.greedy_weight       (BoboAgentDynamic)
    nice_weight,        \* self.nice_weight         (BoboAgentDynamic)
    last_received_bid,  \* self.last_received_bid
    opponent_model,     \* self.opponent_model: None or the model object
    inform,             \* the class of the Inform notifyChange just handled
    sent,               \* the actions that call of notifyChange sent
    floor_met           \* whether a candidate of the last find_bid reached min_util

vars ==
    <<cls, session, phase, clock, data_md_exists, data_md, storage_dir, me,
      other, opponent_utils, opponent_is_greedy, opponent_is_nice,
      greedy_weight, nice_weight, last_received_bid, opponent_model, inform,
      sent, floor_met>>

storage == <<data_md_exists, data_md>>
fields ==
    <<storage_dir, me, other, opponent_utils, opponent_is_greedy,
      opponent_is_nice, greedy_weight, nice_weight, last_received_bid,
      opponent_model>>

\* __init__ of both classes: the fields of a fresh instance.
Constructed ==
    /\ phase' = "constructed"
    /\ clock' = 0
    /\ storage_dir' = None
    /\ me' = NoneStr
    /\ other' = NoneStr
    /\ opponent_utils' = <<>>
    /\ opponent_is_greedy' = FALSE
    /\ opponent_is_nice' = FALSE
    /\ greedy_weight' = 0
    /\ nice_weight' = 0
    /\ last_received_bid' = None
    /\ opponent_model' = None
    /\ inform' = None
    /\ sent' = <<>>
    /\ floor_met' = FALSE

Init ==
    /\ cls \in {"BoboAgent", "BoboAgentDynamic"}
    /\ session = 1
    /\ phase = "constructed"
    /\ clock = 0
    /\ data_md_exists = FALSE
    /\ data_md = <<>>
    /\ storage_dir = None
    /\ me = NoneStr
    /\ other = NoneStr
    /\ opponent_utils = <<>>
    /\ opponent_is_greedy = FALSE
    /\ opponent_is_nice = FALSE
    /\ greedy_weight = 0
    /\ nice_weight = 0
    /\ last_received_bid = None
    /\ opponent_model = None
    /\ inform = None
    /\ sent = <<>>
    /\ floor_met = FALSE

\* A session is over; the runner constructs the agent of the next session,
\* of the same class, on the same storage.
NewInstance ==
    /\ phase = "terminated"
    /\ session < MaxSessions
    /\ session' = session + 1
    /\ Constructed
    /\ UNCHANGED <<cls, storage>>

\* Time passes between two events.  inform and sent describe the call of
\* notifyChange made at the current instant: none once time has passed.
Tick ==
    /\ phase = "running"
    /\ \E t \in ProgressGrid : t > clock /\ clock' = t
    /\ inform' = None
    /\ sent' = <<>>
    /\ floor_met' = FALSE
    /\ UNCHANGED <<cls, session, phase, storage, fields>>

(***************************************************************************)
(* Inputs of the handlers.                                                 *)
(***************************************************************************)
\* The candidates one run of find_bid draws, in the order it draws them.
\* The loop of the source draws 500; the model draws Draws of them.
Draws == 2
SampleSeqs == UNION {[1 .. n -> Bids] : n \in 1 .. Draws}

\* The bids the last randint of find_bid can pick; it is not called when
\* the loop left a bid.
FallbackDraws(best_bid) == IF best_bid = None THEN Bids ELSE {None}

\* What the opponent model predicts for every bid, as find_bid reads it.
\* get_predicted_utility does not change the model: for the bid of the last
\* offer it returns what opponent_action recorded for it.  The model gives
\* the other bids one common value.
Predictions ==
    {[b \in Bids |-> IF opponent_model # None /\ b = last_received_bid
                     THEN opponent_utils[Len(opponent_utils)] ELSE v] :
        v \in (IF opponent_model = None THEN {0} ELSE CandidateGrid)}

\* get_predicted_utility(last_received_bid), read only when a model exists.
LastPredicted ==
    IF opponent_utils = <<>> THEN 0 ELSE opponent_utils[Len(opponent_utils)]

\* profile.getUtility(last_received_bid), read only when there is a bid.
LastOffered ==
    IF last_received_bid = None THEN 0 ELSE Utility(last_received_bid)

\* The handler sends nothing.
Quiet == sent' = <<>> /\ floor_met' = FALSE

Accept(actor, bid) == [kind |-> "Accept", actor |-> actor, bid |-> bid]
Offer(actor, bid) == [kind |-> "Offer", actor |-> actor, bid |-> bid]

(***************************************************************************)
(* BoboAgent.notifyChange, one action per class of Inform.                 *)
(***************************************************************************)
\* Settings: the fields are set, then load_opponent_data reads data.md.
\* os.path.join(None, "data.md") raises when no storage_dir is configured.
BoboAgent_Settings ==
    /\ cls = "BoboAgent"
    /\ phase = "constructed"
    /\ \E dir \in {None, "storage"} :
        /\ storage_dir' = dir
        /\ me' = MyId
        /\ IF dir = None
           THEN /\ phase' = "crashed"
                /\ UNCHANGED <<opponent_is_greedy, opponent_is_nice>>
           ELSE /\ phase' = "running"
                /\ LET flags == IF data_md_exists
                                THEN BoboAgent_load_lines(data_md, other,
                                        opponent_is_greedy, opponent_is_nice)
                                ELSE <<opponent_is_greedy, opponent_is_nice>>
                   IN  /\ opponent_is_greedy' = flags[1]
                       /\ opponent_is_nice' = flags[2]
    /\ inform' = "Settings"
    /\ Quiet
    /\ UNCHANGED <<cls, session, clock, storage, other, opponent_utils,
                   greedy_weight, nice_weight, last_received_bid,
                   opponent_model>>

\* ActionDone of the opponent carrying an Offer: opponent_action.
BoboAgent_ActionDone_Offer ==
    /\ cls = "BoboAgent"
    /\ phase = "running"
    /\ Len(opponent_utils) < MaxOffers
    /\ OpponentId # me
    /\ \E bid \in Bids, util \in PredGrid :
        LET utils == Append(opponent_utils, util) IN
        /\ other' = RSplitHead(OpponentId)
        /\ opponent_model' = BoboAgent_opponent_model(opponent_model, Len(utils))
        /\ last_received_bid' = bid
        /\ opponent_utils' = utils
        /\ opponent_is_greedy' = BoboAgent_greedy_flag(utils, opponent_is_greedy)
        /\ opponent_is_nice' = BoboAgent_nice_flag(utils, opponent_is_nice)
    /\ inform' = "ActionDone"
    /\ Quiet
    /\ UNCHANGED <<cls, session, phase, clock, storage, storage_dir, me,
                   greedy_weight, nice_weight>>

\* ActionDone of the opponent carrying another action (an Accept).
BoboAgent_ActionDone_Other ==
    /\ cls = "BoboAgent"
    /\ phase = "running"
    /\ OpponentId # me
    /\ other' = RSplitHead(OpponentId)
    /\ inform' = "ActionDone"
    /\ Quiet
    /\ UNCHANGED <<cls, session, phase, clock, storage, storage_dir, me,
                   opponent_utils, opponent_is_greedy, opponent_is_nice,
                   greedy_weight, nice_weight, last_received_bid,
                   opponent_model>>

\* ActionDone of the agent's own action: ignored.
BoboAgent_ActionDone_Self ==
    /\ cls = "BoboAgent"
    /\ phase = "running"
    /\ inform' = "ActionDone"
    /\ Quiet
    /\ UNCHANGED <<cls, session, phase, clock, storage, fields>>

\* self.accept_condition(self.last_received_bid) of BoboAgent.my_turn, when
\* the clock reads progress.
BoboAgent_accepts(progress) ==
    BoboAgent_accept_condition(last_received_bid, LastOffered, progress,
        LastPredicted, opponent_is_greedy, opponent_is_nice, opponent_model)

\* What find_bid can return in the current state, over the candidates drawn
\* and the predictions of the model: the bid, and whether a candidate drawn
\* reached min_util.
BoboAgent_found ==
    UNION {
        LET best_bid == BoboAgent_find_bid_loop(samples, clock, pred,
                            opponent_is_greedy, opponent_is_nice,
                            opponent_model, 0, None)
            met == \E i \in 1 .. Len(samples) :
                        ~BoboAgent_below_min_util(samples[i], clock)
        IN  {<<BoboAgent_find_bid(best_bid, fallback), met>> :
                fallback \in FallbackDraws(best_bid)} :
        samples \in SampleSeqs, pred \in Predictions}

\* YourTurn: my_turn.
BoboAgent_YourTurn ==
    /\ cls = "BoboAgent"
    /\ phase = "running"
    /\ IF BoboAgent_accepts(clock)
       THEN /\ sent' = <<Accept(me, last_received_bid)>>
            /\ floor_met' = FALSE
       ELSE \E found \in BoboAgent_found :
            /\ sent' = <<Offer(me, found[1])>>
            /\ floor_met' = found[2]
    /\ inform' = "YourTurn"
    /\ UNCHANGED <<cls, session, phase, clock, storage, fields>>

\* Finished: save_data, then terminate.
BoboAgent_Finished ==
    /\ cls = "BoboAgent"
    /\ phase = "running"
    /\ IF other = NoneStr
       THEN UNCHANGED storage
       ELSE /\ data_md_exists' = TRUE
            /\ data_md' = Append(data_md, BoboAgent_opponent_data(other,
                                    opponent_is_greedy, opponent_is_nice))
    /\ phase' = "terminated"
    /\ inform' = "Finished"
    /\ Quiet
    /\ UNCHANGED <<cls, session, clock, fields>>

\* An unknown Inform handled as a Finished without save_data: the agent
\* terminates.
BoboAgent_Unknown_Terminates ==
    /\ cls = "BoboAgent"
    /\ phase = "running"
    /\ phase' = "terminated"
    /\ inform' = "Unknown"
    /\ Quiet
    /\ UNCHANGED <<cls, session, clock, storage, fields>>

\* Any other Inform: logged and ignored.
BoboAgent_Unknown ==
    /\ cls = "BoboAgent"
    /\ phase = "running"
    /\ inform' = "Unknown"
    /\ Quiet
    /\ UNCHANGED <<cls, session, phase, clock, storage, fields>>

(***************************************************************************)
(* BoboAgentDynamic.notifyChange, one action per class of Inform.          *)
(***************************************************************************)
\* Settings: the fields are set; nothing is read from storage.
BoboAgentDynamic_Settings ==
    /\ cls = "BoboAgentDynamic"
    /\ phase = "constructed"
    /\ \E dir \in {None, "storage"} : storage_dir' = dir
    /\ me' = MyId
    /\ phase' = "running"
    /\ inform' = "Settings"
    /\ Quiet
    /\ UNCHANGED <<cls, session, clock, storage, other, opponent_utils,
                   opponent_is_greedy, opponent_is_nice, greedy_weight,
                   nice_weight, last_received_bid, opponent_model>>

\* ActionDone of the opponent carrying an Offer: opponent_action.
BoboAgentDynamic_ActionDone_Offer ==
    /\ cls = "BoboAgentDynamic"
    /\ phase = "running"
    /\ Len(opponent_utils) < MaxOffers
    /\ OpponentId # me
    /\ \E bid \in Bids, util \in PredGrid :
        LET utils == Append(opponent_utils, util) IN
        /\ other' = RSplitHead(OpponentId)
        /\ opponent_model' = BoboAgentDynamic_opponent_model(opponent_model, Len(utils))
        /\ last_received_bid' = bid
        /\ opponent_utils' = utils
        /\ greedy_weight' = BoboAgentDynamic_greedy_weight(utils, clock, greedy_weight)
        /\ nice_weight' = BoboAgentDynamic_nice_weight(utils, clock, nice_weight)
    /\ inform' = "ActionDone"
    /\ Quiet
    /\ UNCHANGED <<cls, session, phase, clock, storage, storage_dir, me,
                   opponent_is_greedy, opponent_is_nice>>

\* ActionDone of the opponent carrying another action (an Accept).
BoboAgentDynamic_ActionDone_Other ==
    /\ cls = "BoboAgentDynamic"
    /\ phase = "running"
    /\ OpponentId # me
    /\ other' = RSplitHead(OpponentId)
    /\ inform' = "ActionDone"
    /\ Quiet
    /\ UNCHANGED <<cls, session, phase, clock, storage, storage_dir, me,
                   opponent_utils, opponent_is_greedy, opponent_is_nice,
                   greedy_weight, nice_weight, last_received_bid,
                   opponent_model>>

\* ActionDone of the agent's own action handled as if the actor were not
\* self.me: the agent records itself as the opponent.
BoboAgentDynamic_ActionDone_Self_Processed ==
    /\ cls = "BoboAgentDynamic"
    /\ phase = "running"
    /\ other' = RSplitHead(me)
    /\ inform' = "ActionDone"
    /\ Quiet
    /\ UNCHANGED <<cls, session, phase, clock, storage, storage_dir, me,
                   opponent_utils, opponent_is_greedy, opponent_is_nice,
                   greedy_weight, nice_weight, last_received_bid,
                   opponent_model>>

\* ActionDone of the agent's own action: ignored.
BoboAgentDynamic_ActionDone_Self ==
    /\ cls = "BoboAgentDynamic"
    /\ phase = "running"
    /\ inform' = "ActionDone"
    /\ Quiet
    /\ UNCHANGED <<cls, session, phase, clock, storage, fields>>

\* self.accept_condition(self.last_received_bid) of BoboAgentDynamic.my_turn.
BoboAgentDynamic_accepts(progress) ==
    BoboAgentDynamic_accept_condition(last_received_bid, LastOffered, progress,
        LastPredicted, greedy_weight, opponent_model)

\* What find_bid can return in the current state.
BoboAgentDynamic_found ==
    UNION {
        LET best_bid == BoboAgentDynamic_find_bid_loop(samples, clock, pred,
                            greedy_weight, nice_weight, opponent_model, 0, None)
            met == \E i \in 1 .. Len(samples) :
                        ~BoboAgentDynamic_below_min_util(samples[i], clock)
        IN  {<<BoboAgentDynamic_find_bid(best_bid, fallback), met>> :
                fallback \in FallbackDraws(best_bid)} :
        samples \in SampleSeqs, pred \in Predictions}

\* YourTurn: my_turn.
BoboAgentDynamic_YourTurn ==
    /\ cls = "BoboAgentDynamic"
    /\ phase = "running"
    /\ IF BoboAgentDynamic_accepts(clock)
       THEN /\ sent' = <<Accept(me, last_received_bid)>>
            /\ floor_met' = FALSE
       ELSE \E found \in BoboAgentDynamic_found :
            /\ sent' = <<Offer(me, found[1])>>
            /\ floor_met' = found[2]
    /\ inform' = "YourTurn"
    /\ UNCHANGED <<cls, session, phase, clock, storage, fields>>

\* Finished: save_data, then terminate.  open(f"{storage_dir}/data.md", "w")
\* raises when no storage_dir is configured (there is no directory "None").
BoboAgentDynamic_Finished ==
    /\ cls = "BoboAgentDynamic"
    /\ phase = "running"
    /\ IF storage_dir = None
       THEN /\ phase' = "crashed"
            /\ UNCHANGED storage
       ELSE /\ phase' = "terminated"
            /\ data_md_exists' = TRUE
            /\ data_md' = <<BoboAgentDynamic_data>>
    /\ inform' = "Finished"
    /\ Quiet
    /\ UNCHANGED <<cls, session, clock, fields>>

\* Any other Inform: logged and ignored.
BoboAgentDynamic_Unknown ==
    /\ cls = "BoboAgentDynamic"
    /\ phase = "running"
    /\ inform' = "Unknown"
    /\ Quiet
    /\ UNCHANGED <<cls, session, phase, clock, storage, fields>>

Next ==
    \/ Tick
    \/ BoboAgent_Settings
    \/ BoboAgent_ActionDone_Offer
    \/ BoboAgent_ActionDone_Other
    \/ BoboAgent_ActionDone_Self
    \/ BoboAgent_YourTurn
    \/ BoboAgent_Finished
    \/ BoboAgent_Unknown
    \/ BoboAgentDynamic_Settings
    \/ BoboAgentDynamic_ActionDone_Offer
    \/ BoboAgentDynamic_ActionDone_Other
    \/ BoboAgentDynamic_ActionDone_Self
    \/ BoboAgentDynamic_YourTurn
    \/ BoboAgentDynamic_Finished
    \/ BoboAgentDynamic_Unknown

\* One agent instance, from its construction to the end of its session.
Spec == Init /\ [][Next]_vars

\* Sessions one after the other, each with a fresh agent instance, on the
\* same storage.
NextSessions ==
    \/ Next
    \/ NewInstance

SpecSessions == Init /\ [][NextSessions]_vars

TypeOK ==
    /\ phase \in {"constructed", "running", "terminated", "crashed"}
    /\ clock \in ProgressGrid
    /\ Len(opponent_utils) <= MaxOffers

(***************************************************************************)
(* Properties.                                                             *)
(***************************************************************************)
\* The decision of my_turn in the current state if the clock read progress.
Accepts(progress) ==
    IF cls = "BoboAgent" THEN BoboAgent_accepts(progress)
    ELSE BoboAgentDynamic_accepts(progress)

\* The call of notifyChange just made was a YourTurn.
TurnTaken == inform = "YourTurn"
SentAccept == sent = <<Accept(me, last_received_bid)>>
SentOffer == Len(sent) = 1 /\ sent[1].kind = "Offer"

\* C1: in both agents a received bid with own utility >= 0.9 is accepted,
\* at every progress value, in every classification state, with or without
\* an opponent model: the policy accepts it at every progress point, and a
\* turn taken on it sends Accept.
C1_HighUtilityAccepted ==
    (last_received_bid # None /\ LastOffered >= 900) =>
        /\ \A p \in ProgressPoints : Accepts(p)
        /\ TurnTaken => SentAccept

C1_Witness ==
    /\ TurnTaken
    /\ cls = "BoboAgent"
    /\ last_received_bid = "b900"
    /\ LastPredicted = 500
    /\ clock = 0
    /\ SentAccept

\* C2: in both agents, while no opponent offer has been received the policy
\* counters at every progress value, and a turn taken then sends exactly one
\* Offer of a bid of the bid space, never an Accept.
C2_NoBidCounters ==
    last_received_bid = None =>
        /\ \A p \in ProgressPoints : ~Accepts(p)
        /\ TurnTaken => (SentOffer /\ sent[1].bid \in Bids)

C2_Witness ==
    /\ TurnTaken
    /\ last_received_bid = None
    /\ clock = 995
    /\ SentOffer

\* The opponent's first five offers each had predicted utility 0.95.
FiveGreedyOffers ==
    /\ Len(opponent_utils) >= 5
    /\ \A i \in 1 .. 5 : opponent_utils[i] = 950

\* C3 as stated: in BoboAgent, after five consecutive offers of predicted
\* utility 0.95 the greedy flag is true, and from then on an offer of own
\* utility 0.68 is refused at progress 0.3 and accepted at progress 0.995.
C3_Original ==
    (cls = "BoboAgent" /\ FiveGreedyOffers) =>
        /\ opponent_is_greedy
        /\ (TurnTaken /\ LastOffered = 680 /\ clock = 300) => SentOffer
        /\ (TurnTaken /\ LastOffered = 680 /\ clock = 995) => SentAccept

\* C3 as amended: in BoboAgent, after five consecutive offers of predicted
\* utility 0.95 the greedy flag is true, and from then on an offer of own
\* utility 0.68 is accepted at every progress value, 0.3 and 0.995 included.
C3_GreedyAccepts068 ==
    (cls = "BoboAgent" /\ FiveGreedyOffers) =>
        /\ opponent_is_greedy
        /\ LastOffered = 680 =>
            /\ \A p \in ProgressPoints : Accepts(p)
            /\ TurnTaken => SentAccept

C3_Witness ==
    /\ cls = "BoboAgent"
    /\ FiveGreedyOffers
    /\ TurnTaken
    /\ LastOffered = 680
    /\ clock = 300
    /\ SentAccept

\* The fields of the last line of data.md.
LastRecord == Split(Strip(data_md[Len(data_md)]))

\* C4: persistence round trip.  A session against opponent X ended with the
\* signals (g, n) and its record was written; a fresh BoboAgent that has
\* handled the Settings of a new session against X, and no offer yet, has
\* the signals (g, n).
C4_RoundTrip ==
    ( /\ cls = "BoboAgent"
      /\ session > 1
      /\ phase = "running"
      /\ inform = "Settings"
      /\ data_md # <<>>
      /\ Len(LastRecord) = 3
      /\ LastRecord[1] = RSplitHead(OpponentId) ) =>
        /\ opponent_is_greedy = (LastRecord[2] = TrueStr)
        /\ opponent_is_nice = (LastRecord[3] = TrueStr)

\* The bid is below the floor find_bid computes when the clock reads progress.
BelowFloor(bid, progress) ==
    IF cls = "BoboAgent" THEN BoboAgent_below_min_util(bid, progress)
    ELSE BoboAgentDynamic_below_min_util(bid, progress)

\* C5: in both agents, the bid find_bid returns has own utility >= the floor
\* of that call, or no candidate sampled in that call reached the floor.
C5_FloorOrNoCandidate ==
    (TurnTaken /\ SentOffer) =>
        (~BelowFloor(sent[1].bid, clock) \/ ~floor_met)

\* C6: in both agents, while fewer than 3 opponent offers are recorded the
\* flags are False and the weights 0.0, whatever the offers were and
\* whatever other events were handled in between.
C6_NeutralBelowThree ==
    Len(opponent_utils) < 3 =>
        /\ ~opponent_is_greedy
        /\ ~opponent_is_nice
        /\ greedy_weight = 0
        /\ nice_weight = 0

C6_Witness ==
    /\ opponent_utils = <<950, 950>>
    /\ inform = "Unknown"
    /\ clock = 995
    /\ ~opponent_is_greedy
    /\ greedy_weight = 0

\* C7: in BoboAgent, while the opponent is classified greedy, score_bid of
\* a bid is the bid's own utility, whatever the predicted opponent utility
\* of the bid, the progress and the nice flag (scores are in units of 10^-9).
C7_GreedyScoreIsOwnUtility ==
    (cls = "BoboAgent" /\ opponent_is_greedy) =>
        \A b \in Bids, v \in PredGrid \cup CandidateGrid, p \in ProgressPoints :
            BoboAgent_score_bid(b, p, v, opponent_is_greedy, opponent_is_nice,
                                opponent_model) = Utility(b) * 1000000

C7_Witness ==
    /\ cls = "BoboAgent"
    /\ opponent_is_greedy
    /\ opponent_is_nice
    /\ TurnTaken
    /\ SentOffer
    /\ floor_met

\* C8: in both agents, the handling of YourTurn sends exactly one action,
\* an Accept of the last received bid or an Offer of a bid of the bid space,
\* and the handling of any other Inform sends none.
C8_OneActionPerTurn ==
    /\ TurnTaken =>
        /\ Len(sent) = 1
        /\ \/ last_received_bid # None /\ sent[1] = Accept(MyId, last_received_bid)
           \/ \E b \in Bids : sent[1] = Offer(MyId, b)
    /\ ~TurnTaken => sent = <<>>

C8_Witness ==
    /\ cls = "BoboAgentDynamic"
    /\ TurnTaken
    /\ last_received_bid = "b600"
    /\ sent = <<Offer(MyId, "b900")>>

\* C9: in BoboAgent, once at least 3 offers are recorded, opponent_is_greedy
\* is true exactly when the average of the last (up to 5) predicted
\* utilities is > 0.87, and opponent_is_nice exactly when it lies strictly
\* between 0.6 and 0.9.
C9_FlagsFollowAverage ==
    (cls = "BoboAgent" /\ Len(opponent_utils) >= 3) =>
        LET total == SumSeq(Recent(opponent_utils))
            n == Len(Recent(opponent_utils))
        IN  /\ opponent_is_greedy <=> (total > 870 * n)
            /\ opponent_is_nice <=> (600 * n < total /\ total < 900 * n)

\* The late-session concession of C10 for own utility u at progress p.
LateConcession(p, u) ==
    \/ p > 980 /\ u > 700
    \/ p > 970 /\ u > 750
    \/ p > 960 /\ u > 800
    \/ p > 950 /\ u > 850

PredictedPoints == {0, 499, 500, 600, 701, 901, 1000}

\* Own utilities at and below the moderate threshold 0.65.
LowUtilityPoints == {0, 500, 600, 601, 640, 650}

\* The graduated last resort of the greedy branch for own utility u at
\* progress p.
GreedyLastResort(p, u) ==
    \/ p > 990 /\ u > 600
    \/ p > 970 /\ u > 700

\* C11: in BoboAgent, while the opponent is classified greedy, an offer of
\* own utility <= 0.65 is accepted only if progress > 0.99 and own utility
\* > 0.6, or progress > 0.97 and own utility > 0.7; an offer of own utility
\* <= 0.6 is accepted at no progress value; a turn taken on such an offer
\* outside the last resort sends an Offer.
C11_GreedyLowRejected ==
    (cls = "BoboAgent" /\ opponent_is_greedy /\ last_received_bid # None) =>
        /\ \A u \in LowUtilityPoints, p \in ProgressPoints, v \in PredictedPoints :
              /\ BoboAgent_accept_condition(last_received_bid, u, p, v,
                     opponent_is_greedy, opponent_is_nice, opponent_model)
                   => GreedyLastResort(p, u)
              /\ u <= 600 =>
                   ~BoboAgent_accept_condition(last_received_bid, u, p, v,
                       opponent_is_greedy, opponent_is_nice, opponent_model)
        /\ (TurnTaken /\ LastOffered <= 650
                /\ ~GreedyLastResort(clock, LastOffered)) => SentOffer

C11_Witness ==
    /\ cls = "BoboAgent"
    /\ opponent_is_greedy
    /\ TurnTaken
    /\ last_received_bid = "b600"
    /\ clock = 995
    /\ SentOffer

\* Own utilities around every threshold of BoboAgent.accept_condition.
OwnUtilityPoints == {500, 600, 601, 650, 651, 700, 701, 751, 851, 899}

\* C12: in BoboAgent, while opponent_is_greedy is true, accept_condition
\* returns the same decision for opponent_is_nice true and false, for every
\* own utility, progress and predicted opponent utility.
C12_GreedyDecidesBeforeNice ==
    (cls = "BoboAgent" /\ opponent_is_greedy /\ last_received_bid # None) =>
        \A u \in OwnUtilityPoints, p \in ProgressPoints, v \in PredictedPoints :
            BoboAgent_accept_condition(last_received_bid, u, p, v,
                opponent_is_greedy, TRUE, opponent_model)
            = BoboAgent_accept_condition(last_received_bid, u, p, v,
                opponent_is_greedy, FALSE, opponent_model)

\* Both flags are true and a turn was decided by the greedy branch.
C12_Witness ==
    /\ cls = "BoboAgent"
    /\ opponent_is_greedy
    /\ opponent_is_nice
    /\ TurnTaken
    /\ LastOffered = 680
    /\ clock = 0
    /\ SentAccept

\* The progress points up to 0.6.
EarlyProgress == {p \in ProgressPoints : p <= 600}

\* Predicted opponent utilities at the ends of [0,1] and just below 0.5.
EdgePredicted == {0, 499, 1000}

\* C13: in both agents, an offer of own utility <= 0.65 is not accepted at
\* any progress <= 0.6, in the classification state the agent is in, for
\* every predicted opponent utility, with and without an opponent model; a
\* turn taken on such an offer then sends an Offer.
C13_LowEarlyCountered ==
    last_received_bid # None =>
        /\ \A u \in LowUtilityPoints, p \in EarlyProgress, v \in EdgePredicted,
              model \in {None, opponent_model} :
              /\ ~BoboAgent_accept_condition(last_received_bid, u, p, v,
                      opponent_is_greedy, opponent_is_nice, model)
              /\ ~BoboAgentDynamic_accept_condition(last_received_bid, u, p, v,
                      greedy_weight, model)
        /\ (TurnTaken /\ LastOffered <= 650 /\ clock <= 600) => SentOffer

C13_Witness ==
    /\ cls = "BoboAgentDynamic"
    /\ TurnTaken
    /\ last_received_bid = "b600"
    /\ Len(opponent_utils) >= 3
    /\ clock = 300
    /\ SentOffer

\* Predicted opponent utilities around the rejection floor of score_bid,
\* which falls from 0.1 at progress 0 to 0.02 at progress 1.
LowPredictedPoints == {0, 19, 50, 99}

\* C14: in BoboAgent, with an opponent model, score_bid of a bid whose
\* predicted opponent utility is below 0.1 - 0.08 * progress is exactly 0
\* while the opponent is not classified greedy, whatever the bid's own
\* utility, and is not 0 while the opponent is classified greedy.
C14_LowPredictedPruned ==
    (cls = "BoboAgent" /\ opponent_model # None) =>
        \A b \in Bids, p \in ProgressPoints, v \in LowPredictedPoints :
            v * 100 < 10000 - 8 * p =>
                LET score == BoboAgent_score_bid(b, p, v, opponent_is_greedy,
                                 opponent_is_nice, opponent_model)
                IN  IF opponent_is_greedy THEN score # 0 ELSE score = 0

\* A candidate that reached the floor was pruned: the search fell back to a
\* bid below the floor.
C14_Witness ==
    /\ cls = "BoboAgent"
    /\ opponent_model # None
    /\ ~opponent_is_greedy
    /\ TurnTaken
    /\ SentOffer
    /\ floor_met
    /\ BelowFloor(sent[1].bid, clock)

\* C15: in both agents, there is no opponent model while no opponent Offer
\* has been processed, and from the first opponent Offer on the model is the
\* object constructed on that first Offer.
C15_ModelCreatedOnce ==
    /\ opponent_utils = <<>> => opponent_model = None
    /\ opponent_utils # <<>> => opponent_model = OpponentModel(1)

C15_Witness ==
    /\ cls = "BoboAgent"
    /\ Len(opponent_utils) = 3
    /\ opponent_model = OpponentModel(1)
    /\ inform = "YourTurn"

\* C16: in both agents, with no storage_dir configured or no data.md in it,
\* no handler fails.
C16_AbsentStorageTolerated ==
    (storage_dir = None \/ ~data_md_exists) => phase # "crashed"

\* C17: in both agents, the handling of an unknown Inform leaves every
\* field, the storage and the clock as they are, sends no action and leaves
\* the agent running.
C17_UnknownIgnored ==
    [][inform' = "Unknown" =>
          /\ UNCHANGED <<cls, session, clock, storage, fields>>
          /\ phase' = "running"
          /\ sent' = <<>>]_vars

C17_Witness ==
    /\ inform = "Unknown"
    /\ phase = "running"
    /\ cls = "BoboAgent"
    /\ opponent_is_nice
    /\ last_received_bid = "b860"

\* C18: in both agents, find_bid returns the bid the loop retained, or,
\* when it retained none, the bid drawn from the whole bid space; a turn
\* that does not accept sends an Offer of a bid of the bid space.
C18_FindBidReturnsBid ==
    /\ \A b \in Bids :
          /\ BoboAgent_find_bid(None, b) = b
          /\ BoboAgent_find_bid(b, None) = b
          /\ BoboAgentDynamic_find_bid(None, b) = b
          /\ BoboAgentDynamic_find_bid(b, None) = b
    /\ (TurnTaken /\ ~SentAccept) => (SentOffer /\ sent[1].bid \in Bids)

\* No candidate drawn reached the floor: the bid sent is the fallback draw.
C18_Witness ==
    /\ cls = "BoboAgentDynamic"
    /\ TurnTaken
    /\ SentOffer
    /\ ~floor_met
    /\ last_received_bid = "b680"
    /\ sent[1].bid = "b600"

\* C19: in both agents, the handling of an ActionDone whose actor is the
\* agent itself leaves every field as it is.
C19_OwnActionIgnored ==
    [][(BoboAgent_ActionDone_Self \/ BoboAgentDynamic_ActionDone_Self) =>
          UNCHANGED fields]_vars

\* An ActionDone was handled and no opponent is recorded: it was the
\* agent's own.
C19_Witness ==
    /\ cls = "BoboAgentDynamic"
    /\ phase = "running"
    /\ inform = "ActionDone"
    /\ other = NoneStr
    /\ clock = 300

C21_FlagsLatched ==
    [][cls = "BoboAgent" =>
          /\ opponent_is_greedy => opponent_is_greedy'
          /\ opponent_is_nice => opponent_is_nice']_vars

\* The greedy flag is still true although the windowed average has come
\* back to 0.8375, below 0.87.
C21_Witness ==
    /\ cls = "BoboAgent"
    /\ opponent_utils = <<950, 950, 950, 500>>
    /\ opponent_is_greedy
    /\ inform = "ActionDone"

\* Own utilities around every threshold of the two acceptance policies.
MonotoneUtilityPoints == OwnUtilityPoints \cup {750, 800, 801, 850}

\* The progress point that follows p.
NextPoint(p) ==
    CHOOSE q \in ProgressPoints :
        q > p /\ \A r \in ProgressPoints : r > p => q <= r

\* accept_condition of the agent's class in its classification state, for
\* a bid of own utility u and predicted opponent utility v at progress p.
AcceptsAt(u, v, p) ==
    IF cls = "BoboAgent"
    THEN BoboAgent_accept_condition(last_received_bid, u, p, v,
             opponent_is_greedy, opponent_is_nice, opponent_model)
    ELSE BoboAgentDynamic_accept_condition(last_received_bid, u, p, v,
             greedy_weight, opponent_model)

\* C22: in both agents, for a fixed own utility, predicted opponent utility,
\* classification state and model, a bid accepted at a progress point is
\* accepted at the next progress point, hence at every later one.  The
\* classification state changes only when an opponent offer is handled, so
\* it is read in the states that handling leaves.
C22_AcceptMonotone ==
    (inform = "ActionDone" /\ last_received_bid # None) =>
        \A u \in MonotoneUtilityPoints, v \in PredictedPoints,
           p \in ProgressPoints \ {1000} :
            AcceptsAt(u, v, p) => AcceptsAt(u, v, NextPoint(p))

\* An offer of own utility 0.86 and predicted utility 0.5 is refused at
\* progress 0.3 and accepted from progress 0.96 on.
C22_Witness ==
    /\ cls = "BoboAgent"
    /\ inform = "ActionDone"
    /\ last_received_bid = "b860"
    /\ LastPredicted = 500
    /\ ~opponent_is_greedy
    /\ ~Accepts(300)
    /\ Accepts(960)
    /\ Accepts(1000)

=============================================================================
